---------------------------- MODULE Spec2Model ----------------------------
(***************************************************************************)
(* Model of tools/subscribe-data.js: the polling / reconciliation /        *)
(* broadcast loop of the area intensity monitor.                           *)
(*                                                                         *)
(* Times are in milliseconds.  Floating point readings (pga, i) are kept   *)
(* in hundredths.  A JavaScript value is a record [t |-> type, v |-> n].   *)
(***************************************************************************)
EXTENDS Integers, Sequences, FiniteSets, TLC

(***************************************************************************)
(* Bounds of the exploration.                                              *)
(***************************************************************************)
\* Date.now() when main() starts
BootTime == 1000000
\* poll cycles explored from the start of main()
MaxCycles == 2
\* poll cycles explored from the initial state of SpecWarm
WarmBudget == 2
\* poll cycles explored from the initial state of SpecStale
StaleBudget == 2
\* poll cycles that may be in flight at the same time
MaxInFlight == 2
\* cycles already completed in the initial state of SpecWarm
WarmCycles == 58
\* float intensities tried, in hundredths: from -GridBelow to GridAbove
GridBelow == 200
GridAbove == 800

(***************************************************************************)
(* Program constants.                                                      *)
(***************************************************************************)
Interval == 1000
TimeoutRTS == 2000
TimeoutSTATION == 3500
STATION_INFO_INTERVAL == 5 * 60 * 1000
HeartbeatEvery == 60

\* CONFIG.targetAreas, in array order
TargetAreas ==
  << [code |-> 106, name |-> "Taipei-Daan"],
     [code |-> 402, name |-> "Taichung-South"],
     [code |-> 710, name |-> "Tainan-Yongkang"],
     [code |-> 301, name |-> "Hsinchu-East"] >>

TargetCodes == { TargetAreas[k].code : k \in 1..Len(TargetAreas) }

(***************************************************************************)
(* JavaScript values.                                                      *)
(***************************************************************************)
Num(x) == [t |-> "number", v |-> x]
Undefined == [t |-> "undefined", v |-> 0]
Null == [t |-> "null", v |-> 0]
\* the string '0' (INTENSITY_LIST[0])
Str0 == [t |-> "string", v |-> 0]
\* new Date() read at time x
DateAt(x) == [t |-> "date", v |-> x]
\* x.toFixed(2) of a number kept in hundredths: the decimal string
ToFixed2(x) == [t |-> "string", v |-> x.v]
\* JavaScript truthiness
Falsy(x) == \/ x.t \in {"undefined", "null"}
            \/ x.t = "number" /\ x.v = 0
\* stationData.pga || 0
OrZero(x) == IF Falsy(x) THEN Num(0) ELSE x

(***************************************************************************)
(* IntensityCalculator, on intensities kept in hundredths.                 *)
(***************************************************************************)
\* Math.floor(x)
MathFloor(x) == x \div 100

\* Math.round(x): the nearest integer, halves going up
MathRound(x) == (x + 50) \div 100

intensityFloatToInt(floatValue) ==
  IF floatValue < 0 THEN 0
  ELSE IF floatValue < 450 THEN MathRound(floatValue)
  ELSE IF floatValue < 500 THEN 5
  ELSE IF floatValue < 550 THEN 6
  ELSE IF floatValue < 600 THEN 7
  ELSE IF floatValue < 650 THEN 8
  ELSE 9

(***************************************************************************)
(* The area store as initialised at load time.                             *)
(***************************************************************************)
AreaStatusInit ==
  [c \in TargetCodes |->
     LET area == CHOOSE a \in { TargetAreas[k] : k \in 1..Len(TargetAreas) } : a.code = c
     IN  [name |-> area.name, pga |-> Num(0), intensity |-> Num(0),
          intensityText |-> Str0, lastUpdate |-> Null]]

\* areaStatus[k] = v on a JavaScript object: creates the key when missing
Put(store, k, v) ==
  [x \in (DOMAIN store) \cup {k} |-> IF x = k THEN v ELSE store[x]]

(***************************************************************************)
(* Upstream data the environment can serve.                                *)
(***************************************************************************)
\* station directories (bodies of /api/v1/trem/station); "S5" is in none
StationDirs ==
  [M1 |-> [S1 |-> [info |-> << [code |-> 402, lat |-> 2410, lon |-> 12060],
                               [code |-> 106, lat |-> 2500, lon |-> 12150] >>],
           S2 |-> [info |-> << [code |-> 106, lat |-> 2502, lon |-> 12153] >>],
           S3 |-> [info |-> << [code |-> 710, lat |-> 2300, lon |-> 12020],
                               [code |-> 999, lat |-> 2200, lon |-> 12000] >>],
           S4 |-> [info |-> << >>]]]

DirNames == DOMAIN StationDirs
\* the value of the variable stationInfo before any successful fetch
NoInfo == "null"

\* readings (values of data.station[id])
R0 == [pga |-> Undefined, i |-> Num(0), I |-> Num(0)]
R1 == [pga |-> Num(500), i |-> Num(120), I |-> Num(1)]
R2 == [pga |-> Num(800), i |-> Num(210), I |-> Num(2)]
\* a reading whose float intensity is missing
RBad == [pga |-> Num(500), i |-> Undefined, I |-> Num(1)]

E(id, d) == [id |-> id, d |-> d]

\* data.station objects, as the sequence Object.entries iterates
Payloads ==
  { << E("S1", R1) >>,
    << E("S1", R0) >>,
    << E("S1", R1), E("S2", R2) >>,
    << E("S1", RBad), E("S2", R2) >>,
    << E("S3", R1), E("S4", R2), E("S5", R1) >>,
    << E("S3", R2), E("S1", R1) >> }

\* parsed bodies of /api/v2/trem/rts
\* json: the body parses; hasStation: the parsed object has a station field
NoData == [json |-> TRUE, hasStation |-> FALSE, station |-> << >>]
Unparseable == [json |-> FALSE, hasStation |-> FALSE, station |-> << >>]
RtsBodies ==
  { [json |-> TRUE, hasStation |-> TRUE, station |-> p] : p \in Payloads }
    \cup {NoData, Unparseable}
\* bodies of /api/v1/trem/station: a directory, or text that is not JSON
StationBodies == DirNames \cup {"unparseable"}
\* how a request ends: 2xx, another status, a network error, the abort timer
Outcomes == {"ok", "http", "error", "timeout"}
\* WebSocket clients that may connect
Clients == {"c1"}

(***************************************************************************)
(* processTargetAreaData, the loop over Object.entries(data.station).      *)
(***************************************************************************)
\* CONFIG.targetAreas.find(area => area.code === areaCode): index or 0
FindTarget(areaCode) ==
  LET hits == { k \in 1..Len(TargetAreas) : TargetAreas[k].code = areaCode }
  IN  IF hits = {} THEN 0 ELSE CHOOSE k \in hits : \A j \in hits : k <= j

\* the oldest entry of the history instead of the latest
LatestInfoFirst(station) == station.info[1]

\* station.info[station.info.length - 1]
LatestInfo(station) == station.info[Len(station.info)]

\* the position in CONFIG.targetAreas instead of the area code
WriteKeyIndex(areaCode, k) == k

\* the key under which the loop writes the store
WriteKey(areaCode, k) == areaCode

\* one iteration of the loop; acc = [store, updated, threw]
ProcessEntry(acc, e, info, t) ==
  IF acc.threw THEN acc
  ELSE IF e.id \notin DOMAIN info THEN acc
  ELSE IF Len(info[e.id].info) = 0 THEN acc
  ELSE
    LET latestInfo == LatestInfo(info[e.id])
        areaCode == latestInfo.code
        k == FindTarget(areaCode)
    IN  IF k = 0 THEN acc
        ELSE IF areaCode \notin DOMAIN acc.store
               THEN [acc EXCEPT !.threw = TRUE]
        ELSE
          LET pga == OrZero(e.d.pga)
              intensityFloat == e.d.i
              intensityInt == e.d.I
              intensityText == e.d.i
              old == acc.store[areaCode]
              changed == old.pga /= pga \/ old.intensity /= intensityInt
          IN  IF changed \/ Falsy(old.lastUpdate)
              THEN
                LET written == Put(acc.store, WriteKey(areaCode, k),
                                   [name |-> TargetAreas[k].name, pga |-> pga,
                                    intensity |-> intensityInt,
                                    intensityText |-> intensityText,
                                    lastUpdate |-> DateAt(t)])
                IN  IF intensityFloat.t /= "number"
                    THEN [acc EXCEPT !.store = written, !.threw = TRUE]
                    ELSE [acc EXCEPT
                            !.store = written,
                            !.updated = Append(@,
                               [code |-> areaCode, name |-> TargetAreas[k].name,
                                pga |-> pga,
                                intensityFloat |-> ToFixed2(intensityFloat),
                                intensity |-> intensityInt,
                                intensityText |-> intensityText,
                                stationId |-> e.id,
                                location |-> [lat |-> latestInfo.lat,
                                              lon |-> latestInfo.lon]])]
              ELSE acc

RECURSIVE ProcessEntries(_, _, _, _)
ProcessEntries(acc, entries, info, t) ==
  IF entries = << >> THEN acc
  ELSE ProcessEntries(ProcessEntry(acc, Head(entries), info, t),
                      Tail(entries), info, t)

\* lines 224-284 on the store `store` with directory `dir` at time t
Reconcile(store, entries, dir, t) ==
  ProcessEntries([store |-> store, updated |-> << >>, threw |-> FALSE],
                 entries, StationDirs[dir], t)

(***************************************************************************)
(* State.                                                                  *)
(***************************************************************************)
VARIABLES
  now,                  \* Date.now()
  lastFetchTime,        \* let lastFetchTime
  requestCounter,       \* let requestCounter
  isOffline,            \* let isOffline
  areaStatus,           \* const areaStatus
  stationInfo,          \* let stationInfo: NoInfo or the name of a directory
  lastStationInfoFetch, \* let lastStationInfoFetch
  mainPc,               \* where main() is: "init", "first", "timer", "exited"
  inflight,             \* the async calls suspended at an await
  clients,              \* readyState of each client; wss.clients = not "ABSENT"
  cyclesLeft,           \* accepted cycles still to be explored
  lastRun,              \* payload and directory of the latest reconciliation
  seen,                 \* the latest snapshot each connection has received
  ev                    \* what the latest step did (observation only)

vars == << now, lastFetchTime, requestCounter, isOffline, areaStatus,
           stationInfo, lastStationInfoFetch, mainPc, inflight, clients,
           cyclesLeft, lastRun, seen, ev >>

\* a suspended call: id 0 is the getStationInfo() of main, id n >= 1 is the
\* fetchRealtimeData() that set requestCounter to n.  pc is the await it is
\* suspended at; t0 is the `now` read by the function that issued the request;
\* rts is how the realtime request of the cycle ended ("none" while pending)
Call(id, pc, t0, rts, data) ==
  [id |-> id, pc |-> pc, t0 |-> t0, rts |-> rts, data |-> data]

HeaderPcs == {"rts", "station"}
Timeout(pc) == IF pc = "rts" THEN TimeoutRTS ELSE TimeoutSTATION
\* when the abort timer of fetchData fires
Deadline(r) == r.t0 + Timeout(r.pc)
Waiting == { r \in inflight : r.pc \in HeaderPcs }
\* metadata requests that have been issued and have not completed
StationFetches == { r \in inflight : r.pc \in {"station", "stationBody"} }
Cycles == { r \in inflight : r.id > 0 }

Quiet == [c \in Clients |-> << >>]
\* every OPEN client is sent the store as it was at load time
BroadcastAsLoaded(store) ==
  [c \in Clients |-> IF clients[c] = "OPEN" THEN << AreaStatusInit >> ELSE << >>]

\* wss.clients.forEach(client => if OPEN then send(areaStatus))
Broadcast(store) ==
  [c \in Clients |-> IF clients[c] = "OPEN" THEN << store >> ELSE << >>]

RunNone == [ran |-> FALSE, data |-> << >>, meta |-> NoInfo,
            before |-> AreaStatusInit, after |-> AreaStatusInit,
            updated |-> << >>, threw |-> FALSE, at |-> 0,
            again |-> FALSE, prevId |-> 0]

\* no reconciliation has run yet
RunLogInit == [any |-> FALSE, data |-> << >>, meta |-> NoInfo, id |-> 0,
               partial |-> FALSE]

\* no snapshot has been received on the connection
NoSnapshot == [got |-> FALSE, store |-> AreaStatusInit]
\* the latest snapshot of a connection after the messages msgs have arrived
Receive(old, msgs) ==
  IF msgs = << >> THEN old ELSE [got |-> TRUE, store |-> msgs[Len(msgs)]]

EvBase(op, id) ==
  [op |-> op, id |-> id, outcome |-> "none", log |-> "none",
   rts |-> "none", gsi |-> "none", ret |-> NoInfo, cached |-> NoInfo,
   valid |-> FALSE, done |-> FALSE, aborted |-> FALSE, changed |-> FALSE,
   drawn |-> 0, beat |-> FALSE, sent |-> Quiet, run |-> RunNone]

\* `response` alone: any response passes, whatever its status
ResponseOkAnyStatus(o) == o \in {"ok", "http"}

\* `response && response.ok` on what fetchData returned
ResponseOk(o) == o = "ok"

\* fetchData: the connectivity flag and what it logs
OfflineAfter(o) == o \in {"error", "timeout"}
LogOf(o) ==
  IF OfflineAfter(o)
  THEN IF isOffline THEN "none" ELSE "offline"
  ELSE IF isOffline THEN "recovered" ELSE "none"

\* getStationInfo line 189: the cached directory is still fresh at time t
CacheValid(t) ==
  stationInfo /= NoInfo /\ t - lastStationInfoFetch < STATION_INFO_INTERVAL

\* requestCounter % 60 === 0
HeartbeatDue == requestCounter % HeartbeatEvery = 0

\* no rate limit: every invocation goes on to fetch
RateLimitedNever == FALSE

\* fetchRealtimeData line 352: now - lastFetchTime < CONFIG.interval
RateLimited == now - lastFetchTime < Interval

Init ==
  /\ now = BootTime
  /\ lastFetchTime = 0
  /\ requestCounter = 0
  /\ isOffline = FALSE
  /\ areaStatus = AreaStatusInit
  /\ stationInfo = NoInfo
  /\ lastStationInfoFetch = 0
  /\ mainPc = "init"
  /\ inflight = { Call(0, "station", BootTime, "none", NoData) }
  /\ clients = [c \in Clients |-> "ABSENT"]
  /\ cyclesLeft = MaxCycles
  /\ lastRun = RunLogInit
  /\ seen = [c \in Clients |-> NoSnapshot]
  /\ ev = [EvBase("main", 0) EXCEPT !.gsi = "issue"]

\* A later state of the program: the interval timer is running, no cycle is
\* in flight, the directory was fetched `age` ago, and the `n` cycles so far
\* all failed at the realtime request.
Running(n, age, budget) ==
  /\ now = BootTime
  /\ lastFetchTime = BootTime - Interval
  /\ requestCounter = n
  /\ isOffline = TRUE
  /\ areaStatus = AreaStatusInit
  /\ stationInfo = "M1"
  /\ lastStationInfoFetch = BootTime - age
  /\ mainPc = "timer"
  /\ inflight = {}
  /\ clients = [c \in Clients |-> "ABSENT"]
  /\ cyclesLeft = budget
  /\ lastRun = RunLogInit
  /\ seen = [c \in Clients |-> NoSnapshot]
  /\ ev = [EvBase("RtsHeaders", n) EXCEPT
             !.outcome = "error", !.rts = "error", !.done = TRUE,
             !.beat = n % HeartbeatEvery = 0,
             !.drawn = IF n % HeartbeatEvery = 0 THEN 1 ELSE 0]

\* WarmCycles cycles after a start that fetched the directory
InitWarm == Running(WarmCycles, WarmCycles * Interval, WarmBudget)

\* the realtime service has been down for the whole lifetime of the cache
InitStale ==
  Running(STATION_INFO_INTERVAL \div Interval, STATION_INFO_INTERVAL, StaleBudget)

(***************************************************************************)
(* The rest of fetchRealtimeData once its last await has resumed.          *)
(*   mode "noFetch": the realtime request failed or was not 2xx            *)
(*   mode "null"   : processTargetAreaData returned null                   *)
(*   mode "run"    : getStationInfo returned directory dir; the loop runs  *)
(*   mode "throw"  : a json() call rejected                                *)
(***************************************************************************)
Finish(r, e, mode, data, dir) ==
  \E res \in { IF mode = "run"
                THEN Reconcile(areaStatus, data.station, dir, now)
                ELSE [store |-> areaStatus, updated |-> << >>, threw |-> FALSE] } :
  LET aborted == mode = "throw" \/ res.threw
      beat == ~aborted /\ HeartbeatDue
      shown == ~aborted /\ mode \in {"null", "run"}
  IN  /\ areaStatus' = res.store
      /\ inflight' = inflight \ {r}
      /\ mainPc' = IF mainPc = "first" THEN "timer" ELSE mainPc
      /\ lastRun' = IF mode = "run"
                    THEN [any |-> TRUE, data |-> data.station, meta |-> dir,
                          id |-> r.id,
                          partial |-> res.threw /\ res.store /= areaStatus]
                    ELSE lastRun
      /\ seen' = [c \in Clients |->
                    Receive(seen[c], IF shown THEN Broadcast(res.store)[c]
                                              ELSE << >>)]
      /\ ev' = [e EXCEPT
                  !.done = TRUE,
                  !.aborted = aborted,
                  !.changed = res.store /= areaStatus,
                  !.beat = beat,
                  !.drawn = (IF shown THEN 1 ELSE 0) + (IF beat THEN 1 ELSE 0),
                  !.sent = IF shown THEN Broadcast(res.store) ELSE Quiet,
                  !.run = IF mode = "run"
                          THEN [ran |-> TRUE, data |-> data.station,
                                meta |-> dir, before |-> areaStatus,
                                after |-> res.store, updated |-> res.updated,
                                threw |-> res.threw, at |-> now,
                                again |-> /\ lastRun.any
                                          /\ lastRun.data = data.station
                                          /\ lastRun.meta = dir,
                                prevId |-> lastRun.id]
                          ELSE RunNone]

\* fetchRealtimeData lines 349-366, once the rate limit has let it through
StartCycle(e) ==
  /\ lastFetchTime' = now
  /\ requestCounter' = requestCounter + 1
  /\ cyclesLeft' = cyclesLeft - 1
  /\ inflight' = (inflight \ { r \in inflight : r.id = 0 })
                   \cup { Call(requestCounter + 1, "rts", now, "none", NoData) }
  /\ ev' = e

\* main lines 430-437 after `await getStationInfo()` has returned
StartFirst(e) ==
  /\ mainPc' = "first"
  /\ StartCycle([e EXCEPT !.drawn = 1])
  /\ UNCHANGED << areaStatus, lastRun, seen >>

(***************************************************************************)
(* Actions.                                                                *)
(***************************************************************************)
\* a request ends with outcome o at the current time: a response or an error
\* can arrive until the abort timer fires, the abort only when it fires
InTime(r, o) ==
  IF o = "timeout" THEN now >= Deadline(r) ELSE now <= Deadline(r)

\* the headers (or the failure) of the realtime request arrive: fetchData
\* lines 149-171, then fetchRealtimeData from line 368
RtsHeaders(r, o) ==
  /\ mainPc \in {"first", "timer"}
  /\ r \in inflight /\ r.pc = "rts"
  /\ InTime(r, o)
  /\ isOffline' = OfflineAfter(o)
  /\ LET e == [EvBase("RtsHeaders", r.id) EXCEPT
                 !.outcome = o, !.rts = o, !.log = LogOf(o)]
     IN  IF ResponseOk(o)
         THEN /\ inflight' = (inflight \ {r})
                               \cup {[r EXCEPT !.pc = "rtsBody", !.rts = o]}
              /\ ev' = e
              /\ UNCHANGED << areaStatus, mainPc, lastRun, seen >>
         ELSE Finish(r, e, "noFetch", NoData, NoInfo)
  /\ UNCHANGED << now, lastFetchTime, requestCounter, stationInfo,
                  lastStationInfoFetch, clients, cyclesLeft >>

\* rtsResponse.json() settles with body b: lines 369-374, and getStationInfo
\* lines 186-197 when the payload has stations
RtsBody(r, b) ==
  /\ mainPc \in {"first", "timer"}
  /\ r \in inflight /\ r.pc = "rtsBody"
  /\ LET e == [EvBase("RtsBody", r.id) EXCEPT !.rts = r.rts]
     IN  IF ~b.json
         THEN Finish(r, e, "throw", b, NoInfo)
         ELSE IF ~b.hasStation
         THEN Finish(r, e, "null", b, NoInfo)
         ELSE IF CacheValid(now)
         THEN Finish(r, [e EXCEPT !.gsi = "hit", !.ret = stationInfo,
                                  !.cached = stationInfo, !.valid = TRUE],
                     "run", b, stationInfo)
         ELSE /\ inflight' = (inflight \ {r})
                               \cup { Call(r.id, "station", now, r.rts, b) }
              /\ ev' = [e EXCEPT !.gsi = "issue", !.cached = stationInfo,
                                 !.valid = CacheValid(now)]
              /\ UNCHANGED << areaStatus, mainPc, lastRun, seen >>
  /\ UNCHANGED << now, lastFetchTime, requestCounter, isOffline, stationInfo,
                  lastStationInfoFetch, clients, cyclesLeft >>

\* the headers (or the failure) of the metadata request arrive: fetchData,
\* then getStationInfo from line 199 and its caller
StationHeaders(r, o) ==
  /\ mainPc \in {"init", "first", "timer"}
  /\ r \in inflight /\ r.pc = "station"
  /\ InTime(r, o)
  /\ isOffline' = OfflineAfter(o)
  /\ LET e == [EvBase("StationHeaders", r.id) EXCEPT
                 !.outcome = o, !.rts = r.rts, !.log = LogOf(o),
                 !.cached = stationInfo]
         f == [e EXCEPT !.gsi = "fail", !.ret = NoInfo]
     IN  IF ResponseOk(o)
         THEN /\ inflight' = (inflight \ {r}) \cup {[r EXCEPT !.pc = "stationBody"]}
              /\ ev' = e
              /\ UNCHANGED << areaStatus, mainPc, lastRun, seen, lastFetchTime,
                              requestCounter, cyclesLeft >>
         ELSE IF r.id = 0
         THEN StartFirst(f)
         ELSE /\ Finish(r, f, "null", r.data, NoInfo)
              /\ UNCHANGED << lastFetchTime, requestCounter, cyclesLeft >>
  /\ UNCHANGED << now, stationInfo, lastStationInfoFetch, clients >>

\* response.json() of the metadata request settles with body b: getStationInfo
\* lines 200-203 and its caller
StationBody(r, b) ==
  /\ mainPc \in {"init", "first", "timer"}
  /\ r \in inflight /\ r.pc = "stationBody"
  /\ LET e == [EvBase("StationBody", r.id) EXCEPT
                 !.outcome = "ok", !.rts = r.rts, !.cached = stationInfo]
     IN  IF b = "unparseable"
         THEN /\ UNCHANGED << stationInfo, lastStationInfoFetch >>
              /\ IF r.id = 0
                 THEN /\ mainPc' = "exited"
                      /\ inflight' = {}
                      /\ ev' = [e EXCEPT !.gsi = "throw", !.aborted = TRUE]
                      /\ UNCHANGED << areaStatus, lastRun, seen >>
                 ELSE Finish(r, [e EXCEPT !.gsi = "throw"], "throw", r.data, NoInfo)
              /\ UNCHANGED << lastFetchTime, requestCounter, cyclesLeft >>
         ELSE /\ stationInfo' = b
              /\ lastStationInfoFetch' = r.t0
              /\ LET g == [e EXCEPT !.gsi = "ok", !.ret = b]
                 IN  IF r.id = 0
                     THEN StartFirst(g)
                     ELSE /\ Finish(r, g, "run", r.data, b)
                          /\ UNCHANGED << lastFetchTime, requestCounter, cyclesLeft >>
  /\ UNCHANGED << now, isOffline, clients >>

\* the interval timer calls fetchRealtimeData: lines 349-366
Tick ==
  /\ mainPc = "timer"
  /\ IF RateLimited
     THEN /\ ev' = EvBase("TickSkipped", 0)
          /\ UNCHANGED << lastFetchTime, requestCounter, cyclesLeft, inflight >>
     ELSE /\ cyclesLeft > 0
          /\ Cardinality(Cycles) < MaxInFlight
          /\ StartCycle(EvBase("Tick", requestCounter + 1))
  /\ UNCHANGED << now, isOffline, areaStatus, stationInfo,
                  lastStationInfoFetch, mainPc, clients, lastRun, seen >>

\* a new connection is sent nothing
OnConnectNothing(store) == << >>

\* lines 298-301: what the connection handler sends to the new client
OnConnect(store) == << store >>

\* wss.on('connection'): lines 294-302
Connect(c) ==
  /\ mainPc \in {"first", "timer"}
  /\ clients[c] = "ABSENT"
  /\ clients' = [clients EXCEPT ![c] = "OPEN"]
  /\ ev' = [EvBase("Connect", 0) EXCEPT !.sent = [Quiet EXCEPT ![c] = OnConnect(areaStatus)]]
  /\ seen' = [seen EXCEPT ![c] = Receive(NoSnapshot, OnConnect(areaStatus))]
  /\ UNCHANGED << now, lastFetchTime, requestCounter, isOffline, areaStatus,
                  stationInfo, lastStationInfoFetch, mainPc, inflight,
                  cyclesLeft, lastRun >>

\* a client starts the closing handshake: it stays in wss.clients
BeginClose(c) ==
  /\ mainPc \in {"first", "timer"}
  /\ clients[c] = "OPEN"
  /\ clients' = [clients EXCEPT ![c] = "CLOSING"]
  /\ seen' = [seen EXCEPT ![c] = NoSnapshot]
  /\ ev' = EvBase("env", 0)
  /\ UNCHANGED << now, lastFetchTime, requestCounter, isOffline, areaStatus,
                  stationInfo, lastStationInfoFetch, mainPc, inflight,
                  cyclesLeft, lastRun >>

\* the socket is closed: ws removes it from wss.clients
Closed(c) ==
  /\ mainPc \in {"first", "timer"}
  /\ clients[c] = "CLOSING"
  /\ clients' = [clients EXCEPT ![c] = "ABSENT"]
  /\ ev' = EvBase("env", 0)
  /\ UNCHANGED << now, lastFetchTime, requestCounter, isOffline, areaStatus,
                  stationInfo, lastStationInfoFetch, mainPc, inflight,
                  cyclesLeft, lastRun, seen >>

Min(S) == CHOOSE x \in S : \A y \in S : x <= y

\* the instants at which a timer of the program is due
DueTimes ==
  { Deadline(r) : r \in Waiting }
    \cup (IF mainPc = "timer" THEN {lastFetchTime + Interval} ELSE {})

\* time passes until the next instant at which a timer is due
Advance ==
  /\ mainPc /= "exited"
  /\ \E d \in DueTimes : now < d
  /\ now' = Min({ d \in DueTimes : now < d })
  /\ ev' = EvBase("env", 0)
  /\ UNCHANGED << lastFetchTime, requestCounter, isOffline, areaStatus,
                  stationInfo, lastStationInfoFetch, mainPc, inflight,
                  clients, cyclesLeft, lastRun, seen >>

Next ==
  \/ \E r \in inflight, o \in Outcomes : RtsHeaders(r, o)
  \/ \E r \in inflight, b \in RtsBodies : RtsBody(r, b)
  \/ \E r \in inflight, o \in Outcomes : StationHeaders(r, o)
  \/ \E r \in inflight, b \in StationBodies : StationBody(r, b)
  \/ Tick
  \/ \E c \in Clients : Connect(c)
  \/ \E c \in Clients : BeginClose(c)
  \/ \E c \in Clients : Closed(c)
  \/ Advance

Spec == Init /\ [][Next]_vars

\* the steps possible while the cached directory stays fresh: getStationInfo
\* returns at line 190 and no metadata request is ever pending
NextWarm ==
  \/ \E r \in inflight, o \in Outcomes : RtsHeaders(r, o)
  \/ \E r \in inflight, b \in RtsBodies : RtsBody(r, b)
  \/ Tick
  \/ \E c \in Clients : Connect(c)
  \/ \E c \in Clients : BeginClose(c)
  \/ \E c \in Clients : Closed(c)
  \/ Advance

SpecWarm == InitWarm /\ [][NextWarm]_vars

SpecStale == InitStale /\ [][Next]_vars

\* the inputs of intensityFloatToInt
Grid == (0 - GridBelow)..GridAbove

\* the module is loaded and intensityFloatToInt is about to be called
InitCalc ==
  /\ now = BootTime
  /\ lastFetchTime = 0
  /\ requestCounter = 0
  /\ isOffline = FALSE
  /\ areaStatus = AreaStatusInit
  /\ stationInfo = NoInfo
  /\ lastStationInfoFetch = 0
  /\ mainPc = "init"
  /\ inflight = {}
  /\ clients = [c \in Clients |-> "ABSENT"]
  /\ cyclesLeft = 0
  /\ lastRun = RunLogInit
  /\ seen = [c \in Clients |-> NoSnapshot]
  /\ \E x \in Grid : ev = [op |-> "input", floatValue |-> x, ret |-> 0]

\* IntensityCalculator.intensityFloatToInt(floatValue) returns
Convert ==
  /\ ev.op = "input"
  /\ ev' = [op |-> "intensityFloatToInt", floatValue |-> ev.floatValue,
            ret |-> intensityFloatToInt(ev.floatValue)]
  /\ UNCHANGED << now, lastFetchTime, requestCounter, isOffline, areaStatus,
                  stationInfo, lastStationInfoFetch, mainPc, inflight,
                  clients, cyclesLeft, lastRun, seen >>

NextCalc == Convert

SpecCalc == InitCalc /\ [][NextCalc]_vars

\* what the event loop guarantees: time passes, and the abort timer that
\* fetchData arms at line 147 fires when it is due.  Nothing obliges the
\* upstream servers to send anything.
Fairness ==
  /\ WF_vars(Advance)
  /\ WF_vars(\E r \in inflight : RtsHeaders(r, "timeout"))
  /\ WF_vars(\E r \in inflight : StationHeaders(r, "timeout"))

SpecLive == Spec /\ Fairness

(***************************************************************************)
(* Properties.                                                             *)
(***************************************************************************)
\* the station of entry e has no usable assignment to a monitored area
Ignorable(e, info) ==
  \/ e.id \notin DOMAIN info
  \/ info[e.id].info = << >>
  \/ info[e.id].info[Len(info[e.id].info)].code \notin TargetCodes

\* the monitored area a reading of a known station belongs to
AreaOf(e, info) == info[e.id].info[Len(info[e.id].info)].code

\* the entries of the latest reconciliation and the directory it used
RunInfo == StationDirs[ev.run.meta]
RunEntries == { ev.run.data[n] : n \in 1..Len(ev.run.data) }

\* C1: a reconciliation that repeats the payload and the directory of the
\* previous one reports no updated area and leaves every store entry,
\* lastUpdate included, as the previous one left it.
C1_Idempotent ==
  (ev.run.ran /\ ev.run.again) =>
     /\ ev.run.updated = << >>
     /\ ev.run.after = ev.run.before

\* C2: a getStationInfo call whose request fails returns the directory that
\* was cached before the call, and null only when nothing was cached.
C2_StaleOnFailure == (ev.gsi = "fail") => (ev.ret = ev.cached)

\* C3: a getStationInfo call made while the cached directory is fresh
\* returns it without a request, and no metadata request is issued while
\* another one is still outstanding (one request per expiry).
C3_OneFetchPerExpiry ==
  /\ (ev.gsi \in {"hit", "issue"} /\ ev.valid) =>
        (ev.gsi = "hit" /\ ev.ret = stationInfo)
  /\ Cardinality(StationFetches) <= 1

\* what C4 expects of one entry: acc = [store, codes]
C4Step(acc, e, info, t) ==
  IF Ignorable(e, info) THEN acc
  ELSE
    LET a == AreaOf(e, info)
        old == acc.store[a]
        pga == OrZero(e.d.pga)
        differs == \/ old.pga /= pga
                   \/ old.intensity /= e.d.I
                   \/ old.lastUpdate = Null
    IN  IF differs
        THEN [store |-> [acc.store EXCEPT ![a] =
                           [name |-> old.name, pga |-> pga, intensity |-> e.d.I,
                            intensityText |-> e.d.i, lastUpdate |-> DateAt(t)]],
              codes |-> Append(acc.codes, a)]
        ELSE acc

RECURSIVE C4Expected(_, _, _, _)
C4Expected(acc, entries, info, t) ==
  IF entries = << >> THEN acc
  ELSE C4Expected(C4Step(acc, Head(entries), info, t), Tail(entries), info, t)

\* C4: in a reconciliation, a store entry is overwritten with lastUpdate = now
\* and its area appended to updatedAreas exactly for the readings that differ
\* from the stored pga or intensity or that find lastUpdate null; any other
\* reading leaves the entry and its lastUpdate untouched.
C4_ChangeDetection ==
  ev.run.ran =>
    LET x == C4Expected([store |-> ev.run.before, codes |-> << >>],
                        ev.run.data, RunInfo, ev.run.at)
    IN  /\ ev.run.after = x.store
        /\ ~ev.run.threw
        /\ [n \in 1..Len(ev.run.updated) |-> ev.run.updated[n].code] = x.codes

\* C5: stations that are absent from the directory, have no info history or
\* are assigned to an area that is not monitored never cause a store write;
\* a payload of such stations only leaves the store unchanged and yields an
\* empty updatedAreas.
C5_IgnoredStations ==
  ev.run.ran =>
    /\ (\A e \in RunEntries : Ignorable(e, RunInfo)) =>
          /\ ev.run.after = ev.run.before
          /\ ev.run.updated = << >>
          /\ ~ev.run.threw
    /\ \A a \in DOMAIN ev.run.after :
          (a \notin DOMAIN ev.run.before \/ ev.run.after[a] /= ev.run.before[a]) =>
             \E e \in RunEntries : ~Ignorable(e, RunInfo) /\ AreaOf(e, RunInfo) = a
    /\ \A n \in 1..Len(ev.run.updated) :
          \E e \in RunEntries :
             e.id = ev.run.updated[n].stationId /\ ~Ignorable(e, RunInfo)

\* a reconciliation of a non-empty payload of ignorable stations only, on a
\* store that an earlier cycle has written
C5_Witness ==
  /\ ev.run.ran
  /\ RunEntries /= {}
  /\ \A e \in RunEntries : Ignorable(e, RunInfo)
  /\ ev.run.before /= AreaStatusInit

\* C6: the keys of areaStatus are exactly the configured area codes.
C6_KeySet == DOMAIN areaStatus = TargetCodes

\* a reconciliation has just rewritten an entry of the store
C6_Witness == ev.run.ran /\ ev.run.after /= ev.run.before

\* a reading of a monitored station that lacks the float intensity
Malformed(e, info) == ~Ignorable(e, info) /\ e.d.i.t /= "number"

\* C7: a reconciliation whose payload has a malformed entry does not raise,
\* treats the other entries as if the malformed one were not there, and the
\* cycle goes on to display and broadcast.
C7_MalformedSkipped ==
  (ev.run.ran /\ \E e \in RunEntries : Malformed(e, RunInfo)) =>
     LET good == SelectSeq(ev.run.data, LAMBDA e : ~Malformed(e, RunInfo))
         x == Reconcile(ev.run.before, good, ev.run.meta, ev.run.at)
     IN  /\ ~ev.run.threw
         /\ ~ev.aborted
         /\ ev.run.after = x.store
         /\ ev.run.updated = x.updated
         /\ ev.sent = Broadcast(areaStatus)

\* C8: the step that ends a cycle whose realtime request got a 2xx response
\* sends the current store once to every OPEN client and nothing to others.
C8_BroadcastOnSuccess ==
  (ev.done /\ ev.rts = "ok") => ev.sent = Broadcast(areaStatus)

\* C9: a cycle whose realtime request fails or is not 2xx runs no
\* reconciliation, leaves the store unchanged and sends nothing.
C9_FailedFetch ==
  (ev.id > 0 /\ ev.rts \in {"http", "error", "timeout"}) =>
     /\ ev.done
     /\ ~ev.run.ran
     /\ ~ev.changed
     /\ ev.sent = Quiet

\* a cycle's realtime request timed out while a client was OPEN and the
\* store held a reading
C9_Witness ==
  /\ ev.op = "RtsHeaders" /\ ev.outcome = "timeout"
  /\ \E c \in Clients : clients[c] = "OPEN"
  /\ areaStatus /= AreaStatusInit

\* C10: the step that ends every 60th cycle redraws the display and sends
\* the store to every OPEN client, whatever the outcome of its request.
C10_Heartbeat ==
  (ev.done /\ ev.id > 0 /\ ev.id % HeartbeatEvery = 0) =>
     /\ ev.drawn >= 1
     /\ ev.sent = Broadcast(areaStatus)

\* C11: an invocation of fetchRealtimeData made less than one interval after
\* the start of the last accepted cycle changes nothing, draws nothing and
\* sends nothing; so each cycle starts at least one interval after the one
\* before it.
C11_RateLimit ==
  [][ /\ (ev'.op \in {"Tick", "TickSkipped"} /\ now - lastFetchTime < Interval) =>
           /\ UNCHANGED << now, lastFetchTime, requestCounter, isOffline,
                           areaStatus, stationInfo, lastStationInfoFetch,
                           mainPc, inflight, clients, lastRun, seen >>
           /\ ev'.drawn = 0
           /\ ev'.sent = Quiet
           /\ ~ev'.run.ran
      /\ (requestCounter' /= requestCounter) =>
           /\ lastFetchTime' = now
           /\ lastFetchTime' - lastFetchTime >= Interval
    ]_vars

\* the timer has called fetchRealtimeData within the interval of a cycle that
\* is still in flight, with a client OPEN and readings in the store
C11_Witness ==
  /\ ev.op = "TickSkipped"
  /\ now - lastFetchTime < Interval
  /\ \E r \in Cycles : r.t0 = lastFetchTime
  /\ \E c \in Clients : clients[c] = "OPEN"
  /\ areaStatus /= AreaStatusInit

\* C12: at no time are two poll cycles between their start and their
\* completion; a timer tick that finds a cycle in progress starts no cycle.
C12_NoOverlap == Cardinality(Cycles) <= 1

\* when the entry of a store was last written (new Date() of the write)
Stamp(entry) == IF entry.lastUpdate.t = "date" THEN entry.lastUpdate.v ELSE 0

\* every entry of s1 was written no earlier than the same entry of s2
NotOlder(s1, s2) ==
  \A a \in DOMAIN s2 : a \in DOMAIN s1 /\ Stamp(s1[a]) >= Stamp(s2[a])

\* C13: every snapshot a subscriber receives, on connecting or from a cycle,
\* is the store as it is when the message is sent, and is never older than the
\* snapshot the subscriber received before it.
C13_BroadcastOrder ==
  [][ \A c \in Clients : \A n \in 1..Len(ev'.sent[c]) :
         /\ ev'.sent[c][n] = areaStatus'
         /\ seen[c].got => NotOlder(ev'.sent[c][n], seen[c].store)
    ]_vars

\* a subscriber that holds the snapshot of its connection receives a newer
\* one from a cycle that ends while another cycle is still in flight
C13_Witness ==
  /\ ev.done /\ ev.changed
  /\ \E c \in Clients : ev.sent[c] = << areaStatus >> /\ seen[c].got
  /\ Cycles /= {}

\* C14: the step in which a subscriber connects sends that subscriber one
\* message, the whole store as it is at that moment, and nothing to anyone
\* else, whatever the poll cycles in flight are waiting for.
C14_OnConnect ==
  (ev.op = "Connect") =>
     /\ DOMAIN areaStatus = TargetCodes
     /\ \E c \in Clients :
           /\ clients[c] = "OPEN"
           /\ ev.sent = [Quiet EXCEPT ![c] = << areaStatus >>]

\* a subscriber connects while a cycle is between its response headers and
\* its body, and the store holds readings
C14_Witness ==
  /\ ev.op = "Connect"
  /\ \E r \in Cycles : r.pc = "rtsBody"
  /\ areaStatus /= AreaStatusInit

\* C15: fetchData logs the loss of connectivity only when a fetch fails
\* (timeout, network error or non-2xx response) while the flag says online,
\* and the recovery only when a fetch succeeds (2xx response) while it says
\* offline; the flag changes in exactly those steps, so the two logs
\* alternate, and repeated failures or repeated successes log nothing.
C15_EdgeTriggered ==
  [][ /\ (ev'.log = "offline") =>
           /\ ~isOffline /\ isOffline'
           /\ ev'.op \in {"RtsHeaders", "StationHeaders"}
           /\ ev'.outcome \in {"error", "timeout", "http"}
      /\ (ev'.log = "recovered") =>
           /\ isOffline /\ ~isOffline'
           /\ ev'.op \in {"RtsHeaders", "StationHeaders"}
           /\ ev'.outcome = "ok"
      /\ (ev'.log = "none") => (isOffline' = isOffline)
    ]_vars

\* C16: whatever the metadata request brings, getStationInfo returns a
\* directory or null: no call of it ends in an exception, so main is never
\* left and no cycle is aborted at that call.
C16_NeverThrows ==
  /\ ev.gsi /= "throw"
  /\ mainPc /= "exited"
  /\ (ev.op \in {"StationHeaders", "StationBody"}) => ~ev.aborted

\* the poll cycle number n is between its start and its completion
InProgress(n) == \E r \in inflight : r.id = n

\* C17: every poll cycle that has started eventually completes, whatever the
\* upstream servers do.
C17_CyclesComplete ==
  \A n \in 1..MaxCycles : InProgress(n) ~> ~InProgress(n)

\* C18: on every input of the grid intensityFloatToInt returns an integer of
\* 0..9, no smaller than what it returns for any smaller input, and equal to
\* the table: below 0 gives 0, below 4.5 a nearest integer, below 5 gives 5,
\* below 5.5 gives 6, below 6 gives 7, below 6.5 gives 8, anything else 9.
C18_Table ==
  (ev.op = "intensityFloatToInt") =>
     LET x == ev.floatValue
         r == ev.ret
     IN  /\ r \in 0..9
         /\ \A y \in Grid : (y <= x) => (intensityFloatToInt(y) <= r)
         /\ (x < 0) => (r = 0)
         /\ (0 <= x /\ x < 450) => (100 * r - 50 <= x /\ x <= 100 * r + 50)
         /\ (450 <= x /\ x < 500) => (r = 5)
         /\ (500 <= x /\ x < 550) => (r = 6)
         /\ (550 <= x /\ x < 600) => (r = 7)
         /\ (600 <= x /\ x < 650) => (r = 8)
         /\ (650 <= x) => (r = 9)
         /\ (x = 449) => (r = 4)

\* the call at the first breakpoint above the rounding branch: f(4.5) = 5
C18_Witness ==
  /\ ev.op = "intensityFloatToInt"
  /\ ev.floatValue = 450
  /\ ev.ret = 5

\* C19: payloads are applied to the store in the order their cycles started:
\* a reconciliation never runs for a cycle that started before the cycle of
\* the reconciliation that ran last.
C19_StartOrder == ev.run.ran => (ev.run.prevId < ev.id)

\* C20: a snapshot is only ever sent when the store holds whole
\* reconciliations: never while the latest run of processTargetAreaData has
\* written a part of its payload and not the rest.
C20_WholeBatches ==
  (\E c \in Clients : ev.sent[c] /= << >>) => ~lastRun.partial

=============================================================================
